---- MODULE Spec2Model ----
(***************************************************************************)
(* Message routing and human-in-the-loop approval core of my-assistant.   *)
(*                                                                         *)
(* Text is modelled as a sequence of one-character strings, so that the   *)
(* substring tests, str.lower(), str.strip() and the regular expressions  *)
(* of the source are computed on characters.  Characters outside ASCII    *)
(* are written as named tokens: "i_acute" (U+00ED), "I_ACUTE" (U+00CD),   *)
(* "CHECK" (U+2705), "CROSS" (U+274C).                                    *)
(***************************************************************************)
EXTENDS Integers, Sequences, FiniteSets, TLC

(***************************************************************************)
(* Text helpers (Python str semantics)                                     *)
(***************************************************************************)
\* Python None, for the values that are strings when present
None == "None"

\* an optional value: <<>> is None, <<x>> is the value x
Absent == <<>>

Some(x) == <<x>>

\* None where a dict or an object is expected
NoDict == [none |-> TRUE]

UpperChars ==
  <<"A","B","C","D","E","F","G","H","I","J","K","L","M","N","O","P","Q","R",
    "S","T","U","V","W","X","Y","Z","I_ACUTE">>

LowerChars ==
  <<"a","b","c","d","e","f","g","h","i","j","k","l","m","n","o","p","q","r",
    "s","t","u","v","w","x","y","z","i_acute">>

\* str.lower() on one character
LowerChar(c) ==
  IF \E i \in 1..Len(UpperChars) : UpperChars[i] = c
  THEN LowerChars[CHOOSE i \in 1..Len(UpperChars) : UpperChars[i] = c]
  ELSE c

\* str.lower()
Lower(s) == [i \in 1..Len(s) |-> LowerChar(s[i])]

IsSpace(c) == c \in {" ", "\t", "\n"}

\* str.strip()
Strip(s) ==
  LET keep == {i \in 1..Len(s) : ~IsSpace(s[i])}
  IN IF keep = {} THEN <<>>
     ELSE LET lo == CHOOSE i \in keep : \A j \in keep : i <= j
              hi == CHOOSE i \in keep : \A j \in keep : j <= i
          IN SubSeq(s, lo, hi)

\* needle occurs in hay at position i
MatchAt(hay, i, needle) ==
  /\ i >= 1
  /\ i + Len(needle) - 1 <= Len(hay)
  /\ SubSeq(hay, i, i + Len(needle) - 1) = needle

\* Python "needle in hay"
Contains(hay, needle) == \E i \in 1..(Len(hay) + 1) : MatchAt(hay, i, needle)

\* any(w in s for w in words)
ContainsAny(s, words) == \E w \in words : Contains(s, w)

\* str.startswith
StartsWith(s, prefix) == MatchAt(s, 1, prefix)

(***************************************************************************)
(* Words and phrases used by the source                                    *)
(***************************************************************************)
W_ok == <<"o","k">>
W_yes == <<"y","e","s">>
W_approve == <<"a","p","p","r","o","v","e">>
W_si_acute == <<"s","i_acute">>
W_si == <<"s","i">>
W_no == <<"n","o">>
W_reject == <<"r","e","j","e","c","t">>

\* router.py:153 and router.py:947
AckWords == {<<"s","e","n","t">>,
   <<"d","e","l","i","v","e","r","e",
  "d">>,
   <<"r","e","a","d">>, W_ok, <<"t","r","u","e">>}

Cmd_status ==
  <<"/","s","t","a","t","u","s">>

Cmd_help ==
  <<"/","h","e","l","p">>

Cmd_clear ==
  <<"/","c","l","e","a","r">>

Cmd_personality ==
  <<"/","p","e","r","s","o","n","a","l","i","t","y">>

Cmd_summary ==
  <<"/","s","u","m","m","a","r","y">>

Cmd_stop ==
  <<"/","s","t","o","p">>

Cmd_start ==
  <<"/","s","t","a","r","t">>

\* router.py:158-164
AssistantResponses ==
  {<<"INV_EXCL","c","l","a","r","o","!"," ","p","u","e","d","o"," ","p","l",
    "a","t","i","c","a","r"," ","c","o","n","t","i","g","o"," ","s","o","b",
    "r","e"," ","c","u","a","l","q","u","i","e","r"," ","t","e","m",
    "a">>,
   <<"p","u","e","d","o"," ","p","l","a","t","i","c","a","r"," ","c",
    "o","n","t","i","g","o"," ","s","o","b","r","e"," ","c","u","a","l","q",
    "u","i","e","r"," ","t","e","m","a">>,
   <<"l","o"," ","s","i","e","n","t",
    "o",","," ","e","s","t","o","y"," ","t","e","n","i","e","n","d","o"," ",
    "p","r","o","b","l","e","m","a","s"," ","p","a","r","a"," ","p","r","o",
    "c","e","s","a","r"," ","t","u"," ","m","e","n","s","a","j","e">>,
   <<"e",
    "n","t","i","e","n","d","o"," ","q","u","e"," ","d","i","j","i","s","t",
    "e">>,
   <<"e","s","t","o","y"," ","a","q","u","i_acute"," ","p","a","r",
    "a"," ","a","y","u","d","a","r","t","e">>}

\* router.py:223 ("no" is listed twice in the source)
HitlLookingWords ==
  {<<"CHECK">>,
   <<"CROSS">>, W_si_acute, W_no, W_yes, <<"a","p","r","o","b",
    "a","r">>,
   <<"r","e","c","h","a","z","a","r">>}

\* hitl.py:188-189 ("no" is listed twice in the source)
approval_words ==
  {<<"CHECK">>, W_yes, <<"y">>, W_approve, W_ok, W_si_acute, W_si, <<"c","o",
    "n","f","i","r","m">>}

rejection_words == {<<"CROSS">>, W_no, <<"n">>, W_reject, <<"c","a","n","c",
  "e","l">>}

\* hitl.py:72-73: no hitl_config.json ships with the repository
auto_approve_patterns == {}

auto_reject_patterns == {}

(***************************************************************************)
(* Program constants                                                       *)
(***************************************************************************)
response_cooldown == 5

max_processed == 100

keep_processed == 50

default_expires_in_minutes == 30

seconds_per_minute == 60

\* MY_PHONE_NUMBER as the repository's setup script configures it
my_phone_number == <<"5","5","3","0","3","8","6","1","1","4">>

\* the UltraMsg channel number, whatsapp.py:171 and router.py:203
ultramsg_number == <<"5","6","6","4","0","8","7","5","0","6">>

\* the chat id router.py:952 lists first among "your phone numbers"
user_chat_id ==
  <<"5","2","1","5","6","6","4","0","8","7","5","0","6","@","c",".","u","s">>

\* the personal number every reply is sent to, router.py:202
personal_number == my_phone_number

\* a number that appears nowhere in the configuration
other_phone == <<"5","5","1","2","3","4","5","6","7","8">>

(***************************************************************************)
(* hitl.py: PendingAction                                                  *)
(***************************************************************************)
Digits == <<"0","1","2","3","4","5","6","7","8","9">>

\* str(uuid.uuid4()) of the n-th PendingAction created: 8-4-4-4-12 lower
\* case hexadecimal digits; distinct n give distinct ids
Uuid(n) ==
  <<"0","0","0","0","0","0","0",Digits[n + 1],"-","a","b","c","d","-",
    "4","0","0","0","-","8","0","0","0","-",
    "0","0","0","0","0","0","0","0","0","0","0","0">>

\* PendingAction.__init__; data stands for the payload dict: the n-th
\* action carries payload n, and 0 stands for the empty dict
NewPendingAction(n, action_type, expires_in_minutes, t) ==
  [ id            |-> Uuid(n),
    order         |-> n,
    action_type   |-> action_type,
    data          |-> n,
    created_at    |-> t,
    expires_at    |-> t + expires_in_minutes * seconds_per_minute,
    status        |-> "pending",
    user_response |-> Absent,
    response_at   |-> Absent ]

\* an action that never expires
never_expired(a, t) == FALSE

\* PendingAction.is_expired at clock reading t
is_expired(a, t) == t > a.expires_at

\* PendingAction.approve: <<returned value, the action afterwards>>
approve(a, user_response, t) ==
  IF is_expired(a, t)
  THEN <<FALSE, a>>
  ELSE <<TRUE, [a EXCEPT !.status = "approved",
                         !.user_response = Some(user_response),
                         !.response_at = Some(t)]>>

\* PendingAction.reject: <<returned value, the action afterwards>>
reject(a, user_response, t) ==
  IF is_expired(a, t)
  THEN <<FALSE, a>>
  ELSE <<TRUE, [a EXCEPT !.status = "rejected",
                         !.user_response = Some(user_response),
                         !.response_at = Some(t)]>>

(***************************************************************************)
(* hitl.py: HITLManager (pa is the pending_actions dict, id -> action)     *)
(***************************************************************************)
\* HITLManager.get_pending_action
get_pending_action(pa, action_id) ==
  IF action_id \in DOMAIN pa THEN pa[action_id] ELSE NoDict

HexDash(c) ==
  LowerChar(c) \in {"a","b","c","d","e","f","-",
                    "0","1","2","3","4","5","6","7","8","9"}

\* length of the longest run of [a-f0-9-] characters of s that starts at j
HexRun(s, j) ==
  CHOOSE k \in 0..(Len(s) + 1) :
    /\ j + k - 1 <= Len(s)
    /\ \A i \in j..(j + k - 1) : HexDash(s[i])
    /\ (j + k > Len(s) \/ ~HexDash(s[j + k]))

\* length of the longest run of whitespace of s that starts at j
SpaceRun(s, j) ==
  CHOOSE k \in 0..(Len(s) + 1) :
    /\ j + k - 1 <= Len(s)
    /\ \A i \in j..(j + k - 1) : IsSpace(s[i])
    /\ (j + k > Len(s) \/ ~IsSpace(s[j + k]))

\* the regular expression  word \s+ ([a-f0-9-]{8,})  matches s at i
WordIdAt(s, i, word) ==
  /\ MatchAt(Lower(s), i, word)
  /\ SpaceRun(s, i + Len(word)) >= 1
  /\ HexRun(s, i + Len(word) + SpaceRun(s, i + Len(word))) >= 8

\* group(1) of that match
WordIdGroup(s, i, word) ==
  LET j == i + Len(word) + SpaceRun(s, i + Len(word))
  IN SubSeq(s, j, j + HexRun(s, j) - 1)

\* the regular expression  #([a-f0-9-]{8,})  matches s at i
HashIdAt(s, i) == MatchAt(s, i, <<"#">>) /\ HexRun(s, i + 1) >= 8

\* re.search of one pattern (a set of alternative words, no two of which
\* can match at the same position): group(1) of the leftmost match
SearchWordId(s, words) ==
  LET hits == {i \in 1..Len(s) : \E w \in words : WordIdAt(s, i, w)}
  IN IF hits = {} THEN Absent
     ELSE LET i == CHOOSE h \in hits : \A g \in hits : h <= g
              w == CHOOSE x \in words : WordIdAt(s, i, x)
          IN WordIdGroup(s, i, w)

SearchHashId(s) ==
  LET hits == {i \in 1..Len(s) : HashIdAt(s, i)}
  IN IF hits = {} THEN Absent
     ELSE LET i == CHOOSE h \in hits : \A g \in hits : h <= g
          IN SubSeq(s, i + 1, i + HexRun(s, i + 1))

\* HITLManager._extract_action_id: the three patterns in order; Absent
\* when none matches (a matched id has at least 8 characters)
extract_action_id(message) ==
  LET p1 == SearchWordId(message, {W_approve, W_reject, W_yes, W_no})
      p2 == SearchWordId(message, {<<"a","c","t","i","o","n">>})
      p3 == SearchHashId(message)
  IN IF p1 # Absent THEN p1
     ELSE IF p2 # Absent THEN p2
     ELSE p3

\* HITLManager._check_approval_patterns
check_approval_patterns(message) ==
  LET message_lower == Lower(Strip(message))
  IN IF \E p \in auto_approve_patterns : Contains(message_lower, Lower(p))
     THEN "approve"
     ELSE IF \E p \in auto_reject_patterns : Contains(message_lower, Lower(p))
     THEN "reject"
     ELSE IF ContainsAny(message_lower, approval_words) THEN "approve"
     ELSE IF ContainsAny(message_lower, rejection_words) THEN "reject"
     ELSE None

\* the pending action that was created first
get_oldest_pending_action(pa, t) ==
  LET cand == {k \in DOMAIN pa :
                 pa[k].status = "pending" /\ ~is_expired(pa[k], t)}
  IN IF cand = {} THEN NoDict
     ELSE pa[CHOOSE k \in cand :
               \A j \in cand :
                 \/ pa[k].created_at < pa[j].created_at
                 \/ (pa[j].created_at = pa[k].created_at
                       /\ pa[k].order <= pa[j].order)]

\* HITLManager._get_most_recent_pending_action: max() keeps the first of
\* several equally recent actions in dict (insertion) order
get_most_recent_pending_action(pa, t) ==
  LET cand == {k \in DOMAIN pa :
                 pa[k].status = "pending" /\ ~is_expired(pa[k], t)}
  IN IF cand = {} THEN NoDict
     ELSE pa[CHOOSE k \in cand :
               \A j \in cand :
                 \/ pa[j].created_at < pa[k].created_at
                 \/ (pa[j].created_at = pa[k].created_at
                       /\ pa[k].order <= pa[j].order)]

(***************************************************************************)
(* The message bodies of the model.  What the text functions above and    *)
(* the guards of the router say about a body is computed once per body    *)
(* and looked up afterwards                                                *)
(***************************************************************************)
MaxActions == 2

B_si == <<"S","i_acute">>

B_no == <<"n","o">>

B_ok == <<"o","k">>

B_hola == <<"h","o","l","a">>

B_x == <<" ","x">>

B_book == <<"b","o","o","k">>

B_approve(n) == W_approve \o <<" ">> \o Uuid(n)

B_reject(n) == W_reject \o <<" ">> \o Uuid(n)

AllBodies ==
  {<<>>, B_si, B_no, B_ok, B_hola, B_x, B_book, W_si, W_yes,
   Cmd_status, Cmd_help, Cmd_clear, Cmd_personality, Cmd_summary,
   Cmd_stop, Cmd_start}
  \cup {B_approve(n) : n \in 1..(MaxActions + 1)}
  \cup {B_reject(n) : n \in 1..(MaxActions + 1)}

\* router.py:143
is_empty_message(message) == message = <<>> \/ Len(message) < 2

\* router.py:153
is_acknowledgment(message) == ContainsAny(Lower(message), AckWords)

\* router.py:165
contains_assistant_response(message) ==
  ContainsAny(Lower(message), AssistantResponses)

\* router.py:223
looks_like_hitl_response(message) ==
  ContainsAny(Lower(message), HitlLookingWords)

\* router.py:945-948 and 955-957, on the body as received
is_real_user_body(body) ==
  /\ ~ContainsAny(Lower(body), AckWords)
  /\ ~(Lower(body) = <<>> \/ Len(Strip(Lower(body))) < 2)

TextFacts(x) ==
  [ strip       |-> Strip(x),
    empty       |-> is_empty_message(x),
    ack         |-> is_acknowledgment(x),
    assistant   |-> contains_assistant_response(x),
    slash       |-> StartsWith(x, <<"/">>),
    command     |-> Lower(Strip(x)),
    hitl_like   |-> looks_like_hitl_response(x),
    real_body   |-> is_real_user_body(x),
    action_id   |-> extract_action_id(x),
    approval    |-> check_approval_patterns(x) ]

TextTable ==
  {<<x, TextFacts(x)>> : x \in AllBodies \cup {Strip(b) : b \in AllBodies}}

Text(x) == (CHOOSE p \in TextTable : p[1] = x)[2]

Failure(error) == [success |-> FALSE, error |-> error]

\* HITLManager._handle_action_response from the pattern check on (hitl.py
\* 228-246), the action being found and not expired:
\* <<returned dict, pending_actions afterwards>>
apply_approval_status(pa, action, approval_status, message, t) ==
  LET r == IF approval_status = "approve" THEN approve(action, message, t)
           ELSE IF approval_status = "reject" THEN reject(action, message, t)
           ELSE <<FALSE, action>>
  IN IF r[1]
     THEN << [ success     |-> TRUE,
               action_id   |-> action.id,
               status      |-> r[2].status,
               action_type |-> action.action_type,
               data        |-> IF approval_status = "approve"
                               THEN action.data ELSE 0 ],
             [pa EXCEPT ![action.id] = r[2]] >>
     ELSE <<Failure("Could not determine approval status"), pa>>

\* HITLManager._handle_action_response:
\* <<returned dict, pending_actions afterwards>>
handle_action_response(pa, action_id, message, t) ==
  LET action == get_pending_action(pa, action_id)
  IN IF action = NoDict THEN <<Failure("Action not found"), pa>>
     ELSE IF is_expired(action, t) THEN <<Failure("Action has expired"), pa>>
     ELSE apply_approval_status(pa, action, Text(message).approval,
                                message, t)

\* a reply whose named action cannot be resolved is applied to the most
\* recent pending action
process_user_response_fallback(pa, message, t) ==
  LET action_id == Text(message).action_id
      named == handle_action_response(pa, action_id, message, t)
  IN IF action_id # Absent /\ named[1].success
     THEN named
     ELSE IF Text(message).approval # None
               /\ get_most_recent_pending_action(pa, t) # NoDict
          THEN handle_action_response(
                 pa, get_most_recent_pending_action(pa, t).id, message, t)
          ELSE IF action_id # Absent THEN named
          ELSE <<NoDict, pa>>

\* HITLManager.process_user_response:
\* <<returned dict or NoDict, pending_actions afterwards>>
process_user_response(pa, message, t) ==
  LET action_id == Text(message).action_id
  IN IF action_id # Absent
     THEN handle_action_response(pa, action_id, message, t)
     ELSE IF Text(message).approval # None
               /\ get_most_recent_pending_action(pa, t) # NoDict
          THEN handle_action_response(
                 pa, get_most_recent_pending_action(pa, t).id, message, t)
          ELSE <<NoDict, pa>>

\* HITLManager.cleanup_expired_actions: pending_actions afterwards
cleanup_expired_actions(pa, t) ==
  [k \in {j \in DOMAIN pa : ~is_expired(pa[j], t)} |-> pa[k]]

(***************************************************************************)
(* State                                                                   *)
(***************************************************************************)
VARIABLES
  now,                 \* the reading of datetime.now(), in seconds
  emergency_stop,      \* MessageRouter.emergency_stop
  processed_messages,  \* MessageRouter.processed_messages
  last_response_time,  \* MessageRouter.last_response_time
  pending_actions,     \* HITLManager.pending_actions
  created,             \* how many PendingActions were constructed so far
  inflight,            \* the webhook requests in progress
  last,                \* what the most recent run of process_message did
  called,              \* what the most recent direct call of a method did
  hist,                \* what the runs of process_message did so far
  recent_messages      \* MessageRouter.recent_messages

vars ==
  <<now, emergency_stop, processed_messages, last_response_time,
    pending_actions, created, inflight, last, called, hist,
    recent_messages>>

(***************************************************************************)
(* whatsapp.py                                                             *)
(***************************************************************************)
\* a provider message id that was never delivered before and is never
\* delivered again
FreshId == "fresh"

\* WhatsAppIntegration.parse_incoming_message; a payload without .get()
\* (wellformed = FALSE) raises inside the try block and yields None
parse_incoming_message(webhook_data) ==
  IF ~webhook_data.wellformed THEN NoDict
  ELSE [ message_id     |-> webhook_data.id,
         from           |-> webhook_data.from,
         to             |-> webhook_data.to,
         body           |-> webhook_data.body,
         is_from_me     |-> webhook_data.to = my_phone_number,
         is_to_ultramsg |-> webhook_data.to = ultramsg_number ]

(***************************************************************************)
(* router.py: the guards of _handle_user_message                           *)
(***************************************************************************)
\* router.py:170-171; parse_incoming_message sets no "event_type" key, so
\* message_data.get("event_type", "") is always ""
is_webhook_event(event_type) ==
  event_type \in {"message_ack", "message_create", "message_sent"}

\* len(self.processed_messages)
processed_size(pm) == Cardinality(pm.ids) + pm.fresh

\* router.py:177
already_processed(pm, message_id) ==
  message_id # None /\ message_id # FreshId /\ message_id \in pm.ids

\* router.py:183
add_processed(pm, message_id) ==
  IF message_id = FreshId THEN [pm EXCEPT !.fresh = @ + 1]
  ELSE [pm EXCEPT !.ids = @ \cup {message_id}]

\* router.py:185
over_capacity(pm) == processed_size(pm) > max_processed

\* router.py:186: set(list(s)[-50:]) keeps the last 50 ids in the iteration
\* order of a set of strings, which is not the insertion order and differs
\* from run to run (string hashing is randomised): any 50 of the ids may
\* be the ones kept.  The result is the set of the possible values
truncate_processed(pm) ==
  { [ids |-> keep, fresh |-> keep_processed - Cardinality(keep)] :
      keep \in {k \in SUBSET pm.ids :
                  /\ Cardinality(k) <= keep_processed
                  /\ keep_processed - Cardinality(k) <= pm.fresh} }

\* router.py:182-186: the possible values of processed_messages afterwards
mark_processed(pm, message_id) ==
  IF message_id = None THEN {pm}
  ELSE IF over_capacity(add_processed(pm, message_id))
       THEN truncate_processed(add_processed(pm, message_id))
       ELSE {add_processed(pm, message_id)}

\* the window taken to include its end
rate_limited_inclusive(lrt, from_phone, current_time) ==
  /\ from_phone \in DOMAIN lrt
  /\ current_time - lrt[from_phone] <= response_cooldown

\* router.py:190-194
rate_limited(lrt, from_phone, current_time) ==
  /\ from_phone \in DOMAIN lrt
  /\ current_time - lrt[from_phone] < response_cooldown

\* the ledger left as it was
keep_last_response_time(lrt, from_phone, current_time) == lrt

\* router.py:197
update_last_response_time(lrt, from_phone, current_time) ==
  [k \in DOMAIN lrt \cup {from_phone} |->
     IF k = from_phone THEN current_time ELSE lrt[k]]

\* router.py:200-208
response_phone_for(md) ==
  IF md.is_to_ultramsg THEN personal_number
  ELSE IF md.from = ultramsg_number THEN md.to
  ELSE md.from

\* MessageRouter._is_real_user_message
is_real_user_message(md) ==
  /\ ~md.is_from_me
  /\ ~is_webhook_event("") /\ "" # "message_delivered"
  /\ md.from \in {user_chat_id, ultramsg_number}
  /\ Text(md.body).real_body

\* HITLManager.get_pending_actions as Python binds it: the second
\* definition (hitl.py:248) replaces the first (hitl.py:121), and the
\* router calls it without a status filter
get_pending_actions(pa) == {pa[k] : k \in DOMAIN pa}

(***************************************************************************)
(* router.py: the recent outbound messages                                 *)
(***************************************************************************)
max_recent_messages == 5

\* the list of a recipient, [] when the recipient has no entry
recent_for(rm, phone) == IF phone \in DOMAIN rm THEN rm[phone] ELSE <<>>

\* a list that grows without limit
keep_all(messages) == messages

\* a list cut at its newest end
keep_oldest(messages) ==
  IF Len(messages) > max_recent_messages
  THEN SubSeq(messages, 1, max_recent_messages)
  ELSE messages

\* router.py:1122-1123, messages[-max_recent_messages:] past the capacity
keep_recent(messages) ==
  IF Len(messages) > max_recent_messages
  THEN SubSeq(messages, Len(messages) - max_recent_messages + 1,
              Len(messages))
  ELSE messages

\* MessageRouter._is_duplicate_message: <<the value returned, the dict
\* after the call>>
is_duplicate_message(rm, phone, message) ==
  LET messages == recent_for(rm, phone)
      entered == [p \in DOMAIN rm \cup {phone} |->
                    IF p = phone THEN messages ELSE rm[p]]
  IN IF \E i \in 1..Len(messages) : messages[i] = message
     THEN <<TRUE, entered>>
     ELSE <<FALSE,
            [entered EXCEPT ![phone] = keep_recent(Append(messages, message))]>>

(***************************************************************************)
(* router.py: commands and the executor                                    *)
(***************************************************************************)
\* a "body" entry of the payload that is no string (JSON null, a number)
NotAString == <<"null">>

\* in the place of a returned dict: an exception leaves the function
Raised == [raised |-> TRUE]

\* a returned dict with a "status" key
Result(status, message) == [status |-> status, message |-> message]

\* the handler returns what its last whatsapp.send_message call returns:
\* {"success": True, ...} or {"success": False, "error": ...}
ReturnsSendResult == [returns |-> "send_message"]

\* one call of whatsapp.send_message
Send(to, text) == [to |-> to, text |-> text]

\* what one run of a handler does: the returned dict, the router and HITL
\* state afterwards (for processed_messages the set of the values it may
\* have), the _execute_approved_action call (Absent or Some(hitl_result)),
\* whether the gmail/calendar backend was called, the
\* whatsapp.send_message calls in order, and how far the handler got:
\* "unparsed", "external", "guarded" (a guard before the duplicate check
\* returned), "duplicate", "rate_limited" or "accepted"
Outcome(result, stop, pm, lrt, pa, executor, backend, sends, stage) ==
  [ result             |-> result,
    stage              |-> stage,
    emergency_stop     |-> stop,
    processed_messages |-> pm,
    last_response_time |-> lrt,
    pending_actions    |-> pa,
    executor           |-> executor,
    backend            |-> backend,
    sends              |-> sends ]

\* router.py:27-28: the assignments of self.gmail and self.calendar are
\* commented out, so reading either attribute raises AttributeError
gmail_attached == FALSE

calendar_attached == FALSE

\* router.py:255-280, the branches of _handle_command on the lowered and
\* stripped command c: the text sent and the new value of emergency_stop
command_reply(c, stop) ==
     IF c = Cmd_status THEN [text |-> "status", stop |-> stop]
     ELSE IF c = Cmd_help THEN [text |-> "help", stop |-> stop]
     ELSE IF c = Cmd_clear THEN [text |-> "cleared", stop |-> stop]
     ELSE IF c = Cmd_personality THEN [text |-> "personality", stop |-> stop]
     ELSE IF c = Cmd_summary THEN [text |-> "summary", stop |-> stop]
     ELSE IF c = Cmd_stop THEN [text |-> "stopped", stop |-> TRUE]
     ELSE IF c = Cmd_start THEN [text |-> "started", stop |-> FALSE]
     ELSE [text |-> "unknown_command", stop |-> stop]

\* MessageRouter._handle_command
handle_command(command, stop) == command_reply(Text(command).command, stop)

\* a failure of the executor reported as a success
execute_reports_success(hitl_result, backend_ok) ==
  [ result  |-> Result("success", "Email sent"),
    backend |-> FALSE,
    sends   |-> <<>> ]

\* MessageRouter._execute_approved_action with _execute_email_reply and
\* _execute_calendar_event: the returned dict, whether the backend
\* (gmail.send_email / calendar.create_event) was called, and the sends.
\* backend_ok is the success flag of the backend's answer
execute_approved_action(hitl_result, backend_ok) ==
  IF hitl_result.action_type = "email_reply"
  THEN IF gmail_attached /\ hitl_result.data # 0
       THEN IF backend_ok
            THEN [ result  |-> Result("success", "Email sent"),
                   backend |-> TRUE,
                   sends   |-> <<Send(my_phone_number, "email_sent")>> ]
            ELSE [ result  |-> Result("error", "send_email failed"),
                   backend |-> TRUE,
                   sends   |-> <<Send(my_phone_number, "email_error")>> ]
       ELSE [ result  |-> Result("error", "exception"),
              backend |-> FALSE,
              sends   |-> <<Send(my_phone_number, "reply_error")>> ]
  ELSE IF hitl_result.action_type = "calendar_event"
  THEN IF calendar_attached /\ hitl_result.data # 0
       THEN IF backend_ok
            THEN [ result  |-> Result("success", "Event created"),
                   backend |-> TRUE,
                   sends   |-> <<Send(my_phone_number, "event_created")>> ]
            ELSE [ result  |-> Result("error", "create_event failed"),
                   backend |-> TRUE,
                   sends   |-> <<Send(my_phone_number, "event_error")>> ]
       ELSE [ result  |-> Result("error", "exception"),
              backend |-> FALSE,
              sends   |-> <<>> ]
  ELSE [ result  |-> Result("error", "Unknown action type"),
         backend |-> FALSE,
         sends   |-> <<>> ]

(***************************************************************************)
(* router.py: _handle_user_message, _handle_external_message and           *)
(* process_message, run on the router state st at clock reading t         *)
(***************************************************************************)
\* the handler returns without touching anything
Returned(st, result, stage) ==
  Outcome(result, st.emergency_stop, {st.processed_messages},
          st.last_response_time, st.pending_actions, Absent, FALSE, <<>>,
          stage)

\* router.py:212-242, after hitl.process_user_response returned hitl =
\* <<hitl_result, pending_actions afterwards>>
route_message(md, message, st, pm, lrt, hitl, backend_ok) ==
  LET response_phone == response_phone_for(md)
      hitl_result == hitl[1]
      pa == hitl[2]
  IN IF hitl_result # NoDict /\ hitl_result.success
     THEN LET x == execute_approved_action(hitl_result, backend_ok)
          IN Outcome(x.result, st.emergency_stop, pm, lrt, pa,
                     Some(hitl_result), x.backend, x.sends, "accepted")
     ELSE IF Text(message).slash
     THEN LET c == handle_command(message, st.emergency_stop)
          IN Outcome(ReturnsSendResult, c.stop, pm, lrt, pa, Absent, FALSE,
                     <<Send(response_phone, c.text)>>, "accepted")
     ELSE IF get_pending_actions(pa) # {}
     THEN IF Text(message).hitl_like
          THEN Outcome(Result("hitl_processing", "Processing HITL response"),
                       st.emergency_stop, pm, lrt, pa, Absent, FALSE, <<>>,
                       "accepted")
          ELSE Outcome(Result("pending_actions",
                              "Please respond to pending actions first"),
                       st.emergency_stop, pm, lrt, pa, Absent, FALSE, <<>>,
                       "accepted")
     ELSE IF ~is_real_user_message(md)
     THEN Outcome(Result("skipped", "Not a real user message"),
                  st.emergency_stop, pm, lrt, pa, Absent, FALSE, <<>>,
                  "accepted")
     ELSE Outcome(ReturnsSendResult, st.emergency_stop, pm, lrt, pa, Absent,
                  FALSE, <<Send(response_phone, "ai_response")>>, "accepted")

\* router.py:199-242, after the guards: pm and lrt are the ledgers as the
\* guards left them
handle_accepted_message(md, message, st, t, pm, lrt, backend_ok) ==
  route_message(md, message, st, pm, lrt,
                process_user_response(st.pending_actions, message, t),
                backend_ok)

\* router.py:130-197, the guards of _handle_user_message on the stripped
\* body
guard_message(md, message, st, t, backend_ok) ==
  LET pm == mark_processed(st.processed_messages, md.message_id)
  IN IF st.emergency_stop
     THEN Returned(st, Result("emergency_stop",
                              "Assistant disabled due to flooding"),
                   "guarded")
     ELSE IF Text(message).empty
     THEN Returned(st, Result("skipped", "Empty message"), "guarded")
     ELSE IF md.is_from_me
     THEN Returned(st, Result("skipped", "Message from assistant"), "guarded")
     ELSE IF Text(message).ack
     THEN Returned(st, Result("skipped", "Acknowledgment message"), "guarded")
     ELSE IF Text(message).assistant
     THEN Returned(st, Result("skipped", "Contains assistant response"), "guarded")
     ELSE IF is_webhook_event("")
     THEN Returned(st, Result("skipped", "Webhook event"), "guarded")
     ELSE IF already_processed(st.processed_messages, md.message_id)
     THEN Returned(st, Result("skipped", "Already processed"), "duplicate")
     ELSE IF rate_limited(st.last_response_time, md.from, t)
     THEN Outcome(Result("rate_limited", "Too soon since last response"),
                  st.emergency_stop, pm, st.last_response_time,
                  st.pending_actions, Absent, FALSE, <<>>, "rate_limited")
     ELSE handle_accepted_message(
            md, message, st, t, pm,
            update_last_response_time(st.last_response_time, md.from, t),
            backend_ok)

\* the emergency stop flag not looked at
handle_user_message_ungated(md, st, t, backend_ok) ==
  guard_message(md, Text(md.body).strip, [st EXCEPT !.emergency_stop = FALSE],
                t, backend_ok)

\* MessageRouter._handle_user_message
handle_user_message(md, st, t, backend_ok) ==
  IF md.body # NotAString
  THEN guard_message(md, Text(md.body).strip, st, t, backend_ok)
  ELSE IF st.emergency_stop
  THEN Returned(st, Result("emergency_stop",
                           "Assistant disabled due to flooding"),
                "guarded")
  ELSE \* router.py:135: .strip() of a value that is no string raises
       Returned(st, Raised, "guarded")

\* an external message answered with a status of its own
handle_external_message_ignored(md, st) ==
  Returned(st, Result("ignored", "External message logged"), "external")

\* MessageRouter._handle_external_message
handle_external_message(md, st) ==
  Returned(st, Result("logged", "External message logged"), "external")

\* every parsed payload taken for a user message
process_message_unrouted(webhook_data, st, t, backend_ok) ==
  LET md == parse_incoming_message(webhook_data)
  IN IF md = NoDict
     THEN Returned(st, Result("error", "Could not parse message"), "unparsed")
     ELSE handle_user_message(md, st, t, backend_ok)

\* router.py:112-122, the body of the try block of process_message
route_event(webhook_data, st, t, backend_ok) ==
  LET md == parse_incoming_message(webhook_data)
  IN IF md = NoDict
     THEN Returned(st, Result("error", "Could not parse message"), "unparsed")
     ELSE IF md.is_from_me \/ md.is_to_ultramsg
     THEN handle_user_message(md, st, t, backend_ok)
     ELSE handle_external_message(md, st)

\* what a run does when a component fails in it.  fault = "send": every
\* whatsapp.send_message call raises an exception that is no
\* RequestException (send_message catches only those, whatsapp.py:88); the
\* handlers of the command and conversation paths call send_message again
\* in their except blocks, so the exception leaves them, while
\* _execute_approved_action (router.py:994-996) turns it into an error
\* dict.  fault = "agent": conversation_ai.generate_response raises, and
\* _handle_ai_conversation (router.py:791-796) sends its apology instead
apply_fault(out, fault) ==
  IF fault = "send" /\ out.sends # <<>>
  THEN IF out.executor # Absent
       THEN [out EXCEPT !.result = Result("error", "exception")]
       ELSE [out EXCEPT !.result = Raised]
  ELSE IF fault = "agent" /\ out.result = ReturnsSendResult
            /\ out.sends[1].text = "ai_response"
  THEN [out EXCEPT !.sends = <<Send(out.sends[1].to, "ai_apology")>>]
  ELSE out

\* the exception not caught
let_exceptions_escape(out) == out

\* router.py:111 and 124-126, the try/except of process_message
catch_exceptions(out) ==
  IF out.result = Raised
  THEN [out EXCEPT !.result = Result("error", "exception")]
  ELSE out

\* MessageRouter.process_message in a run where a component fails
process_message_under(webhook_data, st, t, backend_ok, fault) ==
  catch_exceptions(
    apply_fault(route_event(webhook_data, st, t, backend_ok), fault))

\* MessageRouter.process_message
process_message(webhook_data, st, t, backend_ok) ==
  catch_exceptions(route_event(webhook_data, st, t, backend_ok))

(***************************************************************************)
(* Inputs                                                                  *)
(***************************************************************************)
MaxInFlight == 2

\* the provider message ids the model follows by name
TrackedIds == {"m1", "m2"}

\* the default time to live of an action, in seconds
DefaultTTL == default_expires_in_minutes * seconds_per_minute

ActionTypes == {"email_reply", "calendar_event"}

\* a webhook payload
Webhook(from, to, body, id) ==
  [wellformed |-> TRUE, id |-> id, from |-> from, to |-> to, body |-> body]

\* a payload that is valid JSON but no object
Malformed == [wellformed |-> FALSE]

(***************************************************************************)
(* Init and the operations                                                 *)
(***************************************************************************)
EmptyDict == [k \in {} |-> 0]

Idle == [pc |-> "idle"]

\* before the first direct call of a method
NoCall ==
  [ toggle |-> FALSE, call |-> "none", action_id |-> Absent,
    message |-> <<>>, at |-> 0, result |-> NoDict ]

\* before the first run of process_message
NoRun ==
  [ toggle   |-> FALSE,
    event    |-> Malformed,
    at       |-> 0,
    stage    |-> "none",
    result   |-> [status |-> "none", message |-> ""],
    executor |-> Absent,
    backend  |-> FALSE,
    sends    |-> <<>> ]

Init ==
  /\ now = 0
  /\ emergency_stop = FALSE
  /\ processed_messages = [ids |-> {}, fresh |-> 0]
  /\ last_response_time = EmptyDict
  /\ pending_actions = EmptyDict
  /\ created = 0
  /\ inflight = [r \in 1..MaxInFlight |-> Idle]
  /\ last = NoRun
  /\ called = NoCall
  /\ hist = [ ever_processed |-> {},
              passes         |-> [m \in TrackedIds |-> 0],
              cool           |-> EmptyDict ]
  /\ recent_messages = EmptyDict

\* the router and HITL state a handler runs on
State ==
  [ emergency_stop     |-> emergency_stop,
    processed_messages |-> processed_messages,
    last_response_time |-> last_response_time,
    pending_actions    |-> pending_actions ]

\* the dict the caller of process_message gets
Returns(out, net_ok) ==
  IF out.result = ReturnsSendResult THEN [success |-> net_ok] ELSE out.result

\* the record of a run of process_message on payload e at clock reading t
RunRecord(e, t, out, net_ok) ==
  [ toggle   |-> ~last.toggle,
    event    |-> e,
    at       |-> t,
    stage    |-> out.stage,
    result   |-> Returns(out, net_ok),
    executor |-> out.executor,
    backend  |-> out.backend,
    sends    |-> out.sends ]

\* the history after a run: the tracked ids ever marked processed, per
\* tracked id the number (0, 1, 2 = more than one) of runs that got past
\* the duplicate check, per sender the clock readings of the last two
\* runs that got past the cooldown check
Recorded(e, t, out) ==
  LET past_dup == out.stage \in {"rate_limited", "accepted"}
      past_cool == out.stage = "accepted"
      tracked == past_dup /\ e.id \in TrackedIds
  IN [ ever_processed |->
         IF tracked THEN hist.ever_processed \cup {e.id}
         ELSE hist.ever_processed,
       passes |->
         IF tracked
         THEN [hist.passes EXCEPT ![e.id] = IF @ < 2 THEN @ + 1 ELSE @]
         ELSE hist.passes,
       cool |->
         IF past_cool
         THEN [k \in DOMAIN hist.cool \cup {e.from} |->
                 IF k # e.from THEN hist.cool[k]
                 ELSE IF k \in DOMAIN hist.cool
                      THEN <<hist.cool[k][Len(hist.cool[k])], t>>
                      ELSE <<t>>]
         ELSE hist.cool ]

\* the synchronous part of a run of process_message: every assignment to
\* the router and HITL state happens before the handler first awaits
RunHandler(e, out) ==
  /\ emergency_stop' = out.emergency_stop
  /\ processed_messages' \in out.processed_messages
  /\ last_response_time' = out.last_response_time
  /\ pending_actions' = out.pending_actions
  /\ hist' = Recorded(e, now, out)

\* process_message from call to return, with no other request in between
Dispatch(e, backend_ok, net_ok) ==
  \E out \in {process_message(e, State, now, backend_ok)} :
     /\ out.backend \/ backend_ok
     /\ out.result = ReturnsSendResult \/ net_ok
     /\ RunHandler(e, out)
     /\ last' = RunRecord(e, now, out, net_ok)
     /\ UNCHANGED <<now, created, inflight, called,
                 recent_messages>>

\* process_message from call to return in a run where a component fails
DispatchUnder(e, backend_ok, net_ok, fault) ==
  \E out \in {process_message_under(e, State, now, backend_ok, fault)} :
     /\ out.backend \/ backend_ok
     /\ out.result = ReturnsSendResult \/ net_ok
     /\ RunHandler(e, out)
     /\ last' = RunRecord(e, now, out, net_ok)
     /\ UNCHANGED <<now, created, inflight, called,
                 recent_messages>>

\* app.py:93-118 up to the call of router.process_message: the webhook
\* coroutine of a new request has read its payload and is scheduled; it
\* takes the lowest free slot
Receive(e) ==
  /\ \E r \in 1..MaxInFlight :
       /\ inflight[r] = Idle
       /\ \A q \in 1..(r - 1) : inflight[q] # Idle
       /\ inflight' = [inflight EXCEPT ![r] = [pc |-> "received", event |-> e]]
  /\ UNCHANGED <<now, emergency_stop, processed_messages,
                 last_response_time, pending_actions, created, last, called,
                 hist,
                 recent_messages>>

\* the coroutine of request r runs process_message up to its first
\* suspension (the awaited completion of the language model, or the
\* return when no call suspends)
Handle(r, backend_ok, net_ok) ==
  /\ inflight[r].pc = "received"
  /\ \E out \in {process_message(inflight[r].event, State, now, backend_ok)} :
       /\ out.backend \/ backend_ok
       /\ out.result = ReturnsSendResult \/ net_ok
       /\ RunHandler(inflight[r].event, out)
       /\ last' = RunRecord(inflight[r].event, now, out, net_ok)
       /\ inflight' = [inflight EXCEPT ![r] =
                         [ pc    |-> "handled",
                           event |-> inflight[r].event,
                           at    |-> now,
                           stage |-> out.stage ]]
  /\ UNCHANGED <<now, created, called,
                 recent_messages>>

\* the coroutine of request r resumes and returns its response
Complete(r) ==
  /\ inflight[r].pc = "handled"
  /\ inflight' = [inflight EXCEPT ![r] = Idle]
  /\ UNCHANGED <<now, emergency_stop, processed_messages,
                 last_response_time, pending_actions, created, last, called,
                 hist,
                 recent_messages>>

\* HITLManager.create_pending_action, at most max times
CreatePendingAction(action_type, expires_in_minutes, max) ==
  /\ created < max
  /\ created' = created + 1
  /\ pending_actions' =
       [k \in DOMAIN pending_actions \cup {Uuid(created + 1)} |->
          IF k \in DOMAIN pending_actions THEN pending_actions[k]
          ELSE NewPendingAction(created + 1, action_type,
                                expires_in_minutes, now)]
  /\ UNCHANGED <<now, emergency_stop, processed_messages,
                 last_response_time, inflight, last, called, hist,
                 recent_messages>>

\* time passes: the clock reads t next
Tick(t) ==
  /\ t > now
  /\ now' = t
  /\ UNCHANGED <<emergency_stop, processed_messages, last_response_time,
                 pending_actions, created, inflight, last, called, hist,
                 recent_messages>>

\* a direct call of PendingAction.approve (decision = "approve") or
\* PendingAction.reject (decision = "reject") on the stored action k
Resolve(decision, k, user_response) ==
  /\ k \in DOMAIN pending_actions
  /\ \E r \in {IF decision = "approve"
                THEN approve(pending_actions[k], user_response, now)
                ELSE reject(pending_actions[k], user_response, now)} :
       /\ pending_actions' = [pending_actions EXCEPT ![k] = r[2]]
       /\ called' = [ toggle |-> ~called.toggle, call |-> decision,
                      action_id |-> Some(k), message |-> user_response,
                      at |-> now, result |-> [success |-> r[1]] ]
  /\ UNCHANGED <<now, emergency_stop, processed_messages,
                 last_response_time, created, inflight, last, hist,
                 recent_messages>>

\* a direct call of HITLManager.process_user_response
ProcessUserResponse(message) ==
  /\ \E r \in {process_user_response(pending_actions, message, now)} :
       /\ pending_actions' = r[2]
       /\ called' = [ toggle |-> ~called.toggle,
                      call |-> "process_user_response",
                      action_id |-> Text(message).action_id,
                      message |-> message, at |-> now, result |-> r[1] ]
  /\ UNCHANGED <<now, emergency_stop, processed_messages,
                 last_response_time, created, inflight, last, hist,
                 recent_messages>>

\* a direct call of MessageRouter._is_duplicate_message
IsDuplicateMessage(phone, message) ==
  /\ \E r \in {is_duplicate_message(recent_messages, phone, message)} :
       /\ recent_messages' = r[2]
       /\ called' = [ toggle |-> ~called.toggle,
                      call |-> "is_duplicate_message",
                      action_id |-> Absent, message |-> message, at |-> now,
                      result |-> [duplicate |-> r[1]], phone |-> phone,
                      before |-> recent_for(recent_messages, phone) ]
  /\ UNCHANGED <<now, emergency_stop, processed_messages,
                 last_response_time, pending_actions, created, inflight,
                 last, hist>>

(***************************************************************************)
(* The operations with their inputs drawn from a set                       *)
(***************************************************************************)
\* one of the payloads is handled from call to return
DispatchAny(events) ==
  \E e \in events : \E b, n \in BOOLEAN : Dispatch(e, b, n)

\* a request with one of the payloads arrives
ReceiveAny(events) == \E e \in events : Receive(e)

\* a request in progress runs its handler
ConcHandle ==
  \E r \in 1..MaxInFlight : \E b, n \in BOOLEAN : Handle(r, b, n)

\* a request in progress returns
ConcComplete == \E r \in 1..MaxInFlight : Complete(r)

\* an action of either type is created with the default time to live
CreateAny ==
  \E a \in ActionTypes :
    CreatePendingAction(a, default_expires_in_minutes, MaxActions)

\* the clock advances to one of the instants
TickAny(instants) == \E t \in instants : Tick(t)

(***************************************************************************)
(* Spec: webhook payloads of every routing, handled one after the other    *)
(***************************************************************************)
Events ==
  {Webhook(f, t, b, None) :
     f \in {user_chat_id, other_phone},
     t \in {ultramsg_number, my_phone_number, other_phone},
     b \in {B_hola, B_ok, B_book, Cmd_status, Cmd_stop, Cmd_start}}
  \cup {Malformed}

Next ==
  \/ DispatchAny(Events)
  \/ TickAny({0, response_cooldown - 1, response_cooldown})

Spec == Init /\ [][Next]_vars

(***************************************************************************)
(* SpecApproval: replies to pending actions, handled one after the other   *)
(***************************************************************************)
ApprovalEvents ==
  {Webhook(f, ultramsg_number, b, None) :
     f \in {user_chat_id, other_phone},
     b \in {B_si, B_no, B_hola, B_reject(1)}}
  \cup {Webhook(other_phone, t, B_si, None) :
          t \in {my_phone_number, other_phone}}
  \cup {Webhook(user_chat_id, ultramsg_number, B_approve(1), None)}

NextApproval ==
  \/ DispatchAny(ApprovalEvents)
  \/ CreateAny
  \/ TickAny({0, response_cooldown})

SpecApproval == Init /\ [][NextApproval]_vars

(***************************************************************************)
(* SpecHITL: the HITL manager and its actions, called directly             *)
(***************************************************************************)
NextHITL ==
  \/ CreateAny
  \/ TickAny({0, DefaultTTL, DefaultTTL + 1})
  \/ \E n \in 1..MaxActions : Resolve("approve", Uuid(n), B_si)
  \/ \E n \in 1..MaxActions : Resolve("reject", Uuid(n), B_no)
  \/ \E m \in {B_si, B_reject(1)} : ProcessUserResponse(m)

SpecHITL == Init /\ [][NextHITL]_vars

(***************************************************************************)
(* SpecConc: requests in progress at the same time                         *)
(***************************************************************************)
ConcEvents ==
  {Webhook(f, ultramsg_number, b, None) :
     f \in {user_chat_id, other_phone}, b \in {B_hola, Cmd_status}}

NextConc ==
  \/ ReceiveAny(ConcEvents)
  \/ ConcHandle
  \/ ConcComplete
  \/ TickAny({0, response_cooldown - 1, response_cooldown})

SpecConc == Init /\ [][NextConc]_vars

(***************************************************************************)
(* SpecDedup: redeliveries of a provider message id among deliveries of    *)
(* ids never seen before                                                   *)
(***************************************************************************)
Redelivered == Webhook(user_chat_id, ultramsg_number, B_hola, "m1")

Unseen == Webhook(other_phone, ultramsg_number, B_hola, FreshId)

NextDedup ==
  \/ DispatchAny({Unseen})
  \/ ReceiveAny({Redelivered})
  \/ ConcHandle
  \/ ConcComplete
  \/ TickAny({response_cooldown})

SpecDedup == Init /\ [][NextDedup]_vars

(***************************************************************************)
(* SpecStop: the emergency stop among replies, messages and redeliveries   *)
(***************************************************************************)
StopEvents ==
  {Webhook(user_chat_id, ultramsg_number, b, i) :
     b \in {B_hola, B_si, Cmd_summary, Cmd_stop, Cmd_start}, i \in {None, "m1"}}

NextStop ==
  \/ DispatchAny(StopEvents)
  \/ CreateAny
  \/ TickAny({response_cooldown})

SpecStop == Init /\ [][NextStop]_vars

(***************************************************************************)
(* SpecFaults: runs in which the payload, the channel, the conversation    *)
(* agent or the executor fails                                             *)
(***************************************************************************)
FaultEvents ==
  {Webhook(user_chat_id, ultramsg_number, b, None) :
     b \in {B_hola, B_si, Cmd_status, Cmd_stop, NotAString}}
  \cup {Malformed}

NextFaults ==
  \/ \E e \in FaultEvents : \E b, n \in BOOLEAN :
       \E f \in {"none", "send", "agent"} : DispatchUnder(e, b, n, f)
  \/ CreateAny
  \/ TickAny({response_cooldown})

SpecFaults == Init /\ [][NextFaults]_vars

(***************************************************************************)
(* SpecCache: calls of the duplicate check                                 *)
(***************************************************************************)
NextCache ==
  \/ \E m \in {B_si, B_no, B_ok, B_hola, B_x, Cmd_status} :
       IsDuplicateMessage(personal_number, m)
  \/ \E m \in {B_si, B_no} : IsDuplicateMessage(other_phone, m)

SpecCache == Init /\ [][NextCache]_vars

(***************************************************************************)
(* The properties                                                          *)
(***************************************************************************)
\* the identifiers under which the operator is configured: the personal
\* number, the chat id and the number of the assistant's instance
OperatorIdentities == {my_phone_number, user_chat_id, ultramsg_number}

\* the "status" entry of a returned dict, None when it has none (the dict a
\* whatsapp.send_message call returned)
StatusOf(result) ==
  IF "status" \in DOMAIN result THEN result.status ELSE None

\* a run of process_message happens in this step
HandlerStep == last'.toggle # last.toggle

\* C1: the executor is invoked for an action only in a run whose reply was
\* classified as approve and set that action's status to approved; a reply
\* that resolves the action as rejected never invokes the executor
C1_ExecutorOnlyOnApprove ==
  last.executor # Absent =>
    /\ Text(Text(last.event.body).strip).approval = "approve"
    /\ last.executor[1].status = "approved"
    /\ pending_actions[last.executor[1].action_id].status = "approved"

\* C2: an action leaves status pending only in a run on an event whose
\* sender is the operator, and a run on an event from any other sender
\* invokes no executor
C2_OnlyOperatorResolves ==
  [][ /\ \A k \in DOMAIN pending_actions :
           pending_actions[k].status = "pending"
             /\ pending_actions'[k].status # "pending"
           => HandlerStep /\ last'.event.from \in OperatorIdentities
      /\ HandlerStep /\ last'.event.wellformed
           /\ last'.event.from \notin OperatorIdentities
         => last'.executor = Absent ]_vars

\* a direct call of the HITL API happens in this step
CalledStep == called'.toggle # called.toggle

\* C8: Approve or Reject at a time later than the action's expires_at
\* returns failure and leaves the stored action (status, reply text and
\* resolution time) unchanged
C8_ExpiredNeverResolves ==
  [][ \A k \in DOMAIN pending_actions :
        now > pending_actions[k].expires_at =>
          /\ pending_actions'[k] = pending_actions[k]
          /\ CalledStep /\ called'.action_id = Some(k)
               => ~called'.result.success ]_vars

\* C8, witness: approve or reject was called on a stored action after its
\* expires_at, returned failure, and the action is still pending
C8_Witness ==
  /\ called.call \in {"approve", "reject"}
  /\ called.at > pending_actions[called.action_id[1]].expires_at
  /\ ~called.result.success
  /\ pending_actions[called.action_id[1]].status = "pending"
  /\ pending_actions[called.action_id[1]].user_response = Absent

\* C9: a resolved action stays as it is: a further Approve or Reject on its
\* id, also by a reply that names the id, returns failure and leaves the
\* stored action unchanged
C9_ResolvedOnlyOnce ==
  [][ \A k \in DOMAIN pending_actions :
        pending_actions[k].status # "pending" =>
          /\ pending_actions'[k] = pending_actions[k]
          /\ CalledStep /\ called'.action_id = Some(k)
               => ~called'.result.success ]_vars

\* the payload is an object and neither its sender nor its recipient is
\* one of the operator's identifiers
IsExternal(e) ==
  /\ e.wellformed
  /\ e.from \notin OperatorIdentities
  /\ e.to \notin OperatorIdentities

LastPass(sender) == hist.cool[sender][Len(hist.cool[sender])]

\* C6: of two events of one sender that both get past the loop guards, the
\* first accepted and the second T seconds later, the second returns
\* rate_limited when T < response_cooldown and is accepted when
\* T >= response_cooldown
C6_CooldownWindow ==
  [][ HandlerStep /\ last'.stage \in {"rate_limited", "accepted"}
        /\ last'.event.from \in DOMAIN hist.cool
      => /\ now - LastPass(last'.event.from) < response_cooldown
              => /\ StatusOf(last'.result) = "rate_limited"
                 /\ last'.sends = <<>>
         /\ now - LastPass(last'.event.from) >= response_cooldown
              => /\ last'.stage = "accepted"
                 /\ StatusOf(last'.result) # "rate_limited" ]_vars

\* C6, witness: a sender's event was accepted, a second one a full window
\* later was accepted too, and a third one less than a window after that
\* returned rate_limited
C6_Witness ==
  /\ StatusOf(last.result) = "rate_limited"
  /\ Len(hist.cool[last.event.from]) = 2
  /\ hist.cool[last.event.from][2] - hist.cool[last.event.from][1]
       >= response_cooldown
  /\ last.at - hist.cool[last.event.from][2] < response_cooldown

\* the operator's resume command
StartCommand == Webhook(user_chat_id, ultramsg_number, Cmd_start, None)

\* C10: a run on the operator's /start while the emergency stop flag is
\* set clears the flag
C10_StartClearsStop ==
  [][ emergency_stop /\ HandlerStep /\ last'.event = StartCommand
      => ~emergency_stop' ]_vars

\* the stages of a run that reached the duplicate check
AtDuplicateCheck == {"duplicate", "rate_limited", "accepted"}

\* C4: once an event with message id m got past the duplicate check, every
\* later run on an event with the same m returns skipped, sends nothing,
\* invokes no executor and changes no action
C4_RedeliverySkipped ==
  [][ HandlerStep /\ last'.event.wellformed
        /\ last'.event.id \in hist.ever_processed
      => /\ StatusOf(last'.result) = "skipped"
         /\ last'.sends = <<>>
         /\ last'.executor = Absent
         /\ pending_actions' = pending_actions ]_vars

\* C5: of two requests in progress at the same time with the same message
\* id that both reached the duplicate check, one returned skipped and at
\* most the other got past it (both return skipped only when a third
\* delivery of the id got past it before them)
C5_ExactlyOnePastDuplicateCheck ==
  \A r1, r2 \in 1..MaxInFlight :
    /\ r1 # r2
    /\ inflight[r1].pc = "handled" /\ inflight[r2].pc = "handled"
    /\ inflight[r1].event.id \in TrackedIds
    /\ inflight[r1].event.id = inflight[r2].event.id
    /\ inflight[r1].stage \in AtDuplicateCheck
    /\ inflight[r2].stage \in AtDuplicateCheck
    => /\ \E r \in {r1, r2} : inflight[r].stage = "duplicate"
       /\ inflight[r1].event.id \in hist.ever_processed

\* C7: no two events of one sender get past the cooldown check less than
\* response_cooldown seconds apart, however the requests interleave
C7_OnePassPerWindow ==
  \A sender \in DOMAIN hist.cool :
    Len(hist.cool[sender]) = 2 =>
      hist.cool[sender][2] - hist.cool[sender][1] >= response_cooldown

\* C7, witness: two requests of one sender were in progress at the same
\* time and within one window; one got past the cooldown check, the other
\* returned rate_limited
C7_Witness ==
  \E r1, r2 \in 1..MaxInFlight :
    /\ r1 # r2
    /\ inflight[r1].pc = "handled" /\ inflight[r2].pc = "handled"
    /\ inflight[r1].event.from = inflight[r2].event.from
    /\ inflight[r2].at - inflight[r1].at \in 0..(response_cooldown - 1)
    /\ inflight[r1].stage = "accepted"
    /\ inflight[r2].stage = "rate_limited"

\* the payload is one that process_message hands to _handle_user_message
IsUserRouted(e) ==
  e.wellformed /\ e.to \in {my_phone_number, ultramsg_number}

\* the body of the payload is one of the two control commands
IsControl(e) == Text(e.body).command \in {Cmd_stop, Cmd_start}

\* C11: while the emergency stop flag is set, a run on an operator event
\* that is no control command returns emergency_stop, sends nothing,
\* invokes no executor and changes no action, processed id or cooldown
\* entry; the flag changes only in a run on /stop or /start
C11_StopDiscards ==
  [][ /\ emergency_stop /\ HandlerStep /\ IsUserRouted(last'.event)
           /\ ~IsControl(last'.event)
         => /\ StatusOf(last'.result) = "emergency_stop"
            /\ last'.sends = <<>>
            /\ last'.executor = Absent
            /\ ~last'.backend
            /\ pending_actions' = pending_actions
            /\ processed_messages' = processed_messages
            /\ last_response_time' = last_response_time
      /\ emergency_stop' # emergency_stop
         => HandlerStep /\ IsUserRouted(last'.event) /\ IsControl(last'.event)
    ]_vars

\* C11, witness: with the flag set, an approval reply with a new message
\* id returned emergency_stop while an action is pending; the action is
\* still pending and the id was not recorded
C11_Witness ==
  /\ emergency_stop
  /\ last.event = Webhook(user_chat_id, ultramsg_number, B_si, "m1")
  /\ StatusOf(last.result) = "emergency_stop"
  /\ \E k \in DOMAIN pending_actions :
       pending_actions[k].status = "pending" /\ now <= pending_actions[k].expires_at
  /\ "m1" \notin processed_messages.ids

\* C12: no exception leaves process_message: every run returns a dict,
\* one with a "status" entry or the dict of a whatsapp.send_message call
C12_NoExceptionEscapes ==
  last.stage # "none" =>
    /\ last.result # Raised
    /\ "status" \in DOMAIN last.result \/ "success" \in DOMAIN last.result

\* C12, witness: a run in which sending raised while the /stop command was
\* answered returned an error dict, with the flag set
C12_Witness ==
  /\ last.event = Webhook(user_chat_id, ultramsg_number, Cmd_stop, None)
  /\ last.sends # <<>>
  /\ last.result = Result("error", "exception")
  /\ emergency_stop

\* C13: a run that returns "skipped" sends nothing and leaves the processed
\* ids, the last response times, the recent outbound messages and every
\* pending action as they were
C13_SkippedIsNoOp ==
  [][ HandlerStep /\ StatusOf(last'.result) = "skipped" =>
        /\ last'.sends = <<>>
        /\ UNCHANGED <<processed_messages, last_response_time,
                       recent_messages, pending_actions>> ]_vars

\* C14: the list of recent messages of a recipient has at most
\* max_recent_messages entries
C14_CacheBounded ==
  \A p \in DOMAIN recent_messages :
     Len(recent_messages[p]) <= max_recent_messages

\* C14, witness: a message was entered in a list that was full
C14_Witness ==
  /\ called.call = "is_duplicate_message"
  /\ Len(called.before) = max_recent_messages
  /\ ~called.result.duplicate
  /\ Len(recent_messages[called.phone]) = max_recent_messages

\* C15: the duplicate check returns True exactly when the message is in
\* the recipient's list, and then leaves the list as it is; otherwise it
\* enters the message at the end and, in a full list, drops the oldest
\* entry; the lists of other recipients stay as they are
C15_DuplicateCheck ==
  [][ CalledStep /\ called'.call = "is_duplicate_message" =>
        LET p == called'.phone
            m == called'.message
            old == recent_for(recent_messages, p)
            new == recent_messages'[p]
            dup == called'.result.duplicate
        IN /\ dup <=> \E i \in 1..Len(old) : old[i] = m
           /\ dup => new = old
           /\ ~dup => new = IF Len(old) < 5
                            THEN Append(old, m)
                            ELSE Append(Tail(old), m)
           /\ \A q \in DOMAIN recent_messages \ {p} :
                 recent_messages'[q] = recent_messages[q] ]_vars

\* C15, witness: the oldest of five messages was dropped for a sixth, and
\* the other four kept their order
C15_Witness ==
  /\ called.call = "is_duplicate_message"
  /\ Len(called.before) = 5
  /\ ~called.result.duplicate
  /\ recent_messages[called.phone]
       = Append(Tail(called.before), called.message)
  /\ \A i \in 1..5 : recent_messages[called.phone][i] # called.before[1]

\* C16: a run does not send a reply whose body is one of the last 5 bodies
\* sent to the same recipient; here for the body the run before it sent,
\* and for the replies whose text is fixed in the source
C16_RepliesPassDuplicateCheck ==
  [][ /\ HandlerStep
      /\ last.sends # <<>> /\ last.result = [success |-> TRUE]
      /\ last.sends[1].text \in {"help", "stopped", "started",
                                 "unknown_command"}
      /\ last'.sends # <<>>
      => last'.sends[1] # last.sends[1] ]_vars

\* C17: with no emergency stop and outside the cooldown, a run on "/status"
\* from 5215664087506@c.us to the operator's own number reaches the status
\* command and sends exactly one message, the status summary
C17_StatusToOwnNumber ==
  [][ /\ HandlerStep
      /\ last'.event
           = Webhook(user_chat_id, my_phone_number, Cmd_status, None)
      /\ ~emergency_stop
      /\ ~rate_limited(last_response_time, user_chat_id, now)
      => /\ last'.stage = "accepted"
         /\ Len(last'.sends) = 1
         /\ last'.sends[1].text = "status" ]_vars

\* C18: with a pending action that has not expired, a run on the operator's
\* "Si" (with the accent, no id) that passes the guards approves the most
\* recent such action, calls the executor with its type and data, and
\* returns the outcome of an executed action
C18_ApprovalExecutes ==
  [][ /\ HandlerStep
      /\ last'.event = Webhook(user_chat_id, ultramsg_number, B_si, None)
      /\ last'.stage = "accepted"
      /\ get_most_recent_pending_action(pending_actions, now) # NoDict
      => LET a == get_most_recent_pending_action(pending_actions, now)
         IN /\ pending_actions'[a.id].status = "approved"
            /\ last'.executor # Absent
            /\ last'.executor[1].action_type = a.action_type
            /\ last'.executor[1].data = a.data
            /\ StatusOf(last'.result) \in {"executed", "success"} ]_vars

\* C19: with no action that is pending and not expired, a run on the
\* operator's "Si" (with the accent, no id) that passes the guards changes
\* no action, calls no executor and answers with the conversation agent
C19_ApprovalWithoutPending ==
  [][ /\ HandlerStep
      /\ last'.event = Webhook(user_chat_id, ultramsg_number, B_si, None)
      /\ last'.stage = "accepted"
      /\ get_most_recent_pending_action(pending_actions, now) = NoDict
      => /\ pending_actions' = pending_actions
         /\ last'.executor = Absent
         /\ Len(last'.sends) = 1
         /\ last'.sends[1].text = "ai_response" ]_vars

\* C20: a run returns "pending_actions" only when some stored action is
\* pending and not expired
C20_PendingActionsOnlyIfPending ==
  [][ HandlerStep /\ StatusOf(last'.result) = "pending_actions"
      => \E k \in DOMAIN pending_actions :
            /\ pending_actions[k].status = "pending"
            /\ ~is_expired(pending_actions[k], now) ]_vars

\* C21: a run on a reply that names an action id which is not stored or
\* whose action has expired resolves nothing, calls no executor and sends
\* the operator one message about the stale action, not the reply of the
\* conversation agent
C21_StaleActionReported ==
  [][ /\ HandlerStep
      /\ last'.event
           = Webhook(user_chat_id, ultramsg_number, B_reject(1), None)
      /\ last'.stage = "accepted"
      /\ \/ Uuid(1) \notin DOMAIN pending_actions
         \/ is_expired(pending_actions[Uuid(1)], now)
      => /\ pending_actions' = pending_actions
         /\ last'.executor = Absent
         /\ Len(last'.sends) = 1
         /\ last'.sends[1].text # "ai_response" ]_vars

C23_ExplicitIdOnly ==
  [][ /\ CalledStep
      /\ called'.call = "process_user_response"
      /\ called'.action_id # Absent
      => LET k == called'.action_id
         IN /\ \A j \in DOMAIN pending_actions \ {k} :
                 pending_actions'[j] = pending_actions[j]
            /\ \/ k \notin DOMAIN pending_actions
               \/ is_expired(pending_actions[k], now)
               => /\ ~called'.result.success
                  /\ pending_actions' = pending_actions ]_vars

\* C23, witness: a reply that rejects the first action by its id came after
\* that action expired, while the second action was pending and not
\* expired; the call returned failure and the second action is still pending
C23_Witness ==
  /\ called.call = "process_user_response"
  /\ called.message = B_reject(1)
  /\ called.action_id = Uuid(1)
  /\ Uuid(1) \in DOMAIN pending_actions
  /\ Uuid(2) \in DOMAIN pending_actions
  /\ is_expired(pending_actions[Uuid(1)], called.at)
  /\ ~is_expired(pending_actions[Uuid(2)], called.at)
  /\ pending_actions[Uuid(2)].status = "pending"
  /\ ~called.result.success

\* C24: process_user_response on a text with no action id and an approve
\* or reject intent resolves the action created last among the actions that
\* are pending and not expired, and changes no other action; with no such
\* action it changes nothing
C24_MostRecentPending ==
  [][ /\ CalledStep
      /\ called'.call = "process_user_response"
      /\ called'.action_id = Absent
      /\ Text(called'.message).approval # None
      => LET open == {k \in DOMAIN pending_actions :
                        /\ pending_actions[k].status = "pending"
                        /\ ~is_expired(pending_actions[k], now)}
             changed == {k \in DOMAIN pending_actions :
                           pending_actions'[k] # pending_actions[k]}
         IN /\ DOMAIN pending_actions' = DOMAIN pending_actions
            /\ changed \subseteq open
            /\ open # {} => Cardinality(changed) = 1
            /\ \A k \in changed : \A j \in open :
                 pending_actions[j].created_at
                   <= pending_actions[k].created_at ]_vars

\* C24, witness: "Si" (with the accent) came while two actions were pending
\* and not expired; the one created later is approved at that moment and
\* the one created earlier is still pending
C24_Witness ==
  /\ called.call = "process_user_response"
  /\ called.message = B_si
  /\ Uuid(1) \in DOMAIN pending_actions
  /\ Uuid(2) \in DOMAIN pending_actions
  /\ pending_actions[Uuid(1)].created_at
       < pending_actions[Uuid(2)].created_at
  /\ ~is_expired(pending_actions[Uuid(1)], called.at)
  /\ pending_actions[Uuid(1)].status = "pending"
  /\ pending_actions[Uuid(2)].status = "approved"
  /\ pending_actions[Uuid(2)].response_at = Some(called.at)

\* C25: after a run processed_messages holds at most max_processed ids, and
\* the id the run just marked processed is among them (the ids dropped at
\* the capacity are the oldest ones)
C25_NewestIdsRetained ==
  [][ /\ HandlerStep
      /\ last'.stage \in {"rate_limited", "accepted"}
      /\ last'.event.id \in TrackedIds
      => /\ processed_size(processed_messages') <= max_processed
         /\ last'.event.id \in processed_messages'.ids ]_vars

\* C26: a run returns skipped for an empty body or an acknowledgment only
\* when the stripped body has fewer than 2 characters or is, whatever the
\* case of its letters, one of sent, delivered, read, ok, true; a longer
\* body that has one of them inside is handled
C26_AckOnlyWhenEqual ==
  /\ last.stage # "none"
  /\ last.event.wellformed
  /\ StatusOf(last.result) = "skipped"
  /\ last.result.message \in {"Empty message", "Acknowledgment message"}
  => \/ Len(Strip(last.event.body)) < 2
     \/ Lower(Strip(last.event.body)) \in AckWords

\* C27: a run in which the executor fails for an approved action (here the
\* backend is never reached) returns status error and leaves the action
\* approved; a step that is no run of process_message makes no call of the
\* executor and leaves every resolved action as it is
C27_FailedExecutionKeepsApproved ==
  [][ /\ /\ HandlerStep
         /\ last'.executor # Absent
         /\ last'.executor[1].status = "approved"
         /\ ~last'.backend
         => /\ StatusOf(last'.result) = "error"
            /\ pending_actions'[last'.executor[1].action_id].status
                 = "approved"
      /\ ~HandlerStep
         => /\ last' = last
            /\ \A k \in DOMAIN pending_actions :
                 pending_actions[k].status # "pending"
                   => pending_actions'[k] = pending_actions[k] ]_vars

\* C27, witness: the executor failed for an approved action, the run
\* returned status error, time has passed since, and the action is approved
C27_Witness ==
  /\ last.executor # Absent
  /\ last.executor[1].status = "approved"
  /\ StatusOf(last.result) = "error"
  /\ now > last.at
  /\ pending_actions[last.executor[1].action_id].status = "approved"

\* C28: the executor is called at most once for an action id; here for two
\* runs of process_message in a row that call it for an approved action
C28_ExecutedAtMostOnce ==
  [][ /\ HandlerStep
      /\ last.executor # Absent /\ last.executor[1].status = "approved"
      /\ last'.executor # Absent /\ last'.executor[1].status = "approved"
      => last'.executor[1].action_id # last.executor[1].action_id ]_vars

\* C29: a run on a body that is one of the commands /status, /help, /clear,
\* /personality, /summary, /stop, /start calls no executor and changes the
\* status of no action
C29_CommandsLeaveActions ==
  [][ /\ HandlerStep
      /\ last'.event.wellformed
      /\ last'.event.body \in {Cmd_status, Cmd_help, Cmd_clear,
                               Cmd_personality, Cmd_summary, Cmd_stop,
                               Cmd_start}
      => /\ last'.executor = Absent
         /\ \A k \in DOMAIN pending_actions :
              pending_actions'[k].status = pending_actions[k].status ]_vars

\* C30: a run that returns rate_limited has marked its message id processed
\* and left last_response_time as it was, and the next run on the same
\* message id returns skipped at the duplicate check
C30_RateLimitedIsProcessed ==
  [][ /\ HandlerStep /\ last'.stage = "rate_limited"
         /\ last'.event.id \in TrackedIds
         => /\ last'.event.id \in processed_messages'.ids
            /\ last_response_time' = last_response_time
      /\ HandlerStep /\ last.stage = "rate_limited"
         /\ last.event.id \in TrackedIds
         /\ last'.event.wellformed
         /\ last'.event.id = last.event.id
         => last'.stage = "duplicate" ]_vars

====
